---- MODULE Spec2Model ----
(***************************************************************************)
(* Model of biothings/web/api/es/handlers/base_handler.py: the option      *)
(* cleaner (get_cleaned_options), the query pipeline with its four hooks   *)
(* (execute_pipeline) and the error envelope (write_error).                *)
(***************************************************************************)
EXTENDS Naturals, Sequences, FiniteSets, TLC

(***************************************************************************)
(* Bounds.                                                                 *)
(***************************************************************************)
\* longest batch of query terms / ids an option set carries
MaxTerms == 2

(***************************************************************************)
(* Python values.  A value is a record [t, v]: t is the Python type and v  *)
(* its content.  A str is the sequence of its pieces, a line break being   *)
(* the piece "\n"; a list is the sequence of its items; a dict is a        *)
(* function from its keys.                                                 *)
(***************************************************************************)
None == [t |-> "NoneType", v |-> <<>>]
Bool(b) == [t |-> "bool", v |-> b]
Int(n) == [t |-> "int", v |-> n]
Str(s) == [t |-> "str", v |-> s]
List(s) == [t |-> "list", v |-> s]
Dict(d) == [t |-> "dict", v |-> d]

EmptyDict == [k \in {} |-> None]

\* bool(x): Python truthiness, as `if x` and `not x` and `x or y` use it
Truthy(x) ==
    CASE x.t = "NoneType" -> FALSE
      [] x.t = "bool" -> x.v
      [] x.t = "int" -> x.v # 0
      [] x.t \in {"str", "list"} -> Len(x.v) > 0
      [] x.t = "dict" -> DOMAIN x.v # {}
      [] OTHER -> TRUE

\* whether `for q in x` / `item in x` is defined for x
Iterable(x) == x.t \in {"str", "list", "dict", "generator"}

\* `item in x` for an iterable x (item a str)
Contains(x, item) ==
    CASE x.t = "list" -> \E i \in 1..Len(x.v) : x.v[i] = Str(<<item>>)
      [] x.t = "str" -> \E i \in 1..Len(x.v) : x.v[i] = item
      [] x.t = "dict" -> item \in DOMAIN x.v
      [] OTHER -> FALSE

\* dotdict attribute read: a missing key reads as None
Get(d, k) == IF k \in DOMAIN d THEN d[k] ELSE None

\* dict.pop(k, None)
Pop(d, k) == [x \in DOMAIN d \ {k} |-> d[x]]

\* dotdict attribute write / dict item assignment
Put(d, k, val) == [x \in DOMAIN d \cup {k} |-> IF x = k THEN val ELSE d[x]]

\* dict.update(other)
Update(d, other) ==
    [x \in DOMAIN d \cup DOMAIN other |-> IF x \in DOMAIN other THEN other[x] ELSE d[x]]

(***************************************************************************)
(* Exceptions.  cls is the class, status_code and reason the HTTPError     *)
(* attributes (reason None when not given), kwargs the BadRequest detail,  *)
(* args the constructor arguments (the payload of a Finish).               *)
(***************************************************************************)
Exc(cls, status_code, reason, kwargs, args) ==
    [cls |-> cls, status_code |-> status_code, reason |-> reason,
     kwargs |-> kwargs, args |-> args]

NoExc == Exc("none", 0, None, EmptyDict, <<>>)
TypeError == Exc("TypeError", 0, None, EmptyDict, <<>>)
AssertionError == Exc("AssertionError", 0, None, EmptyDict, <<>>)
Finish(payload) == Exc("Finish", 0, None, EmptyDict, <<payload>>)

IsHTTPError(e) == e.cls \in {"HTTPError", "BadRequest"}
IsBadRequest(e) == e.cls = "BadRequest"

(***************************************************************************)
(* get_cleaned_options.  An option set is a record of four stage dicts:    *)
(* control, esqb, es, transform.  The cleaner mutates the option set in    *)
(* place, so each rule maps a cleaning state [options, exc] to the next;   *)
(* a rule that raises leaves the mutations made so far and sets exc.       *)
(***************************************************************************)
\* faulty variant: the test on aggs inverted
CleanFacetSizeInverted(options) ==
    IF Truthy(Get(options.esqb, "aggs"))
    THEN [options EXCEPT !.esqb = Pop(@, "facet_size")]
    ELSE options

\* facet_size only relevant for aggs
CleanFacetSize(options) ==
    IF ~Truthy(Get(options.esqb, "aggs"))
    THEN [options EXCEPT !.esqb = Pop(@, "facet_size")]
    ELSE options

\* faulty variant: size is left in place
CleanFetchAllSortOnly(options) ==
    IF Truthy(Get(options.es, "fetch_all"))
    THEN [options EXCEPT !.es = Pop(@, "sort")]
    ELSE options

\* no sorting when scrolling
CleanFetchAll(options) ==
    IF Truthy(Get(options.es, "fetch_all"))
    THEN [options EXCEPT !.es = Pop(Pop(@, "sort"), "size")]
    ELSE options

\* faulty variant: "all" is looked for only as the whole selection
CleanSourceWhole(options) ==
    LET src == Get(options.es, "_source") IN
    IF src # None
    THEN IF ~Truthy(src)
         THEN [options |-> [options EXCEPT !.es = Pop(@, "_source")], exc |-> NoExc]
         ELSE IF src = List(<<Str(<<"all">>)>>)
              THEN [options |-> [options EXCEPT !.es = Put(@, "_source", Bool(TRUE))],
                    exc |-> NoExc]
              ELSE [options |-> options, exc |-> NoExc]
    ELSE [options |-> options, exc |-> NoExc]

\* fields=all should return all fields
CleanSource(options) ==
    LET src == Get(options.es, "_source") IN
    IF src # None
    THEN IF ~Truthy(src)
         THEN [options |-> [options EXCEPT !.es = Pop(@, "_source")], exc |-> NoExc]
         ELSE IF ~Iterable(src)
              THEN [options |-> options, exc |-> TypeError]
              ELSE IF Contains(src, "all")
                   THEN [options |-> [options EXCEPT !.es = Put(@, "_source", Bool(TRUE))],
                         exc |-> NoExc]
                   ELSE [options |-> options, exc |-> NoExc]
    ELSE [options |-> options, exc |-> NoExc]

\* options.transform.biothing_type = self.biothing_type
SetBiothingType(options, biothing_type) ==
    [options EXCEPT !.transform = Put(@, "biothing_type", Str(<<biothing_type>>))]

\* iter(x): the items `for q in x` visits
Items(x) ==
    CASE x.t = "list" -> x.v
      [] x.t = "str" -> [i \in 1..Len(x.v) |-> Str(<<x.v[i]>>)]
      [] OTHER -> <<>>

\* (dict(query=q) for q in queries): a generator over the items of queries,
\* nothing yielded yet
Templates(queries) == [t |-> "generator", v |-> [source |-> Items(queries), next |-> 1]]

\* inject original query terms
InjectTemplates(options, method) ==
    IF method = "POST"
    THEN LET ids == Get(options.esqb, "ids")
             queries == IF Truthy(ids) THEN ids ELSE Get(options.esqb, "q")
         IN IF ~Iterable(queries)
            THEN [options |-> options, exc |-> TypeError]
            ELSE [options |->
                    [options EXCEPT !.transform =
                        Put(Put(Put(@, "templates", Templates(queries)),
                                "template_miss",
                                Dict([k \in {"notfound"} |-> Bool(TRUE)])),
                            "template_hit", Dict(EmptyDict))],
                  exc |-> NoExc]
    ELSE [options |-> options, exc |-> NoExc]

get_cleaned_options(options, biothing_type, method) ==
    LET s1 == CleanSource(CleanFetchAll(CleanFacetSize(options))) IN
    IF s1.exc # NoExc
    THEN s1
    ELSE InjectTemplates(SetBiothingType(s1.options, biothing_type), method)

(***************************************************************************)
(* write_error.  kwargs is the keyword dict of the call ("reason" a str,   *)
(* "exc_info" the exception being handled), _reason the handler's          *)
(* self._reason.  The result is the message passed to self.finish, or the  *)
(* exception the method raises.                                            *)
(***************************************************************************)
BaseMessage(status_code, reason) ==
    [k \in {"code", "success", "error"} |->
        CASE k = "code" -> Int(status_code)
          [] k = "success" -> Bool(FALSE)
          [] k = "error" -> reason]

\* faulty variant: the detail of the exception is not merged
ErrorDetailDropped(message, kwargs) == message

ErrorDetail(message, kwargs) ==
    IF "exc_info" \in DOMAIN kwargs
    THEN LET exception == kwargs["exc_info"] IN
         IF IsBadRequest(exception) /\ DOMAIN exception.kwargs # {}
         THEN Update(message, exception.kwargs)
         ELSE message
    ELSE message

write_error(status_code, kwargs, _reason) ==
    LET reason == IF "reason" \in DOMAIN kwargs THEN kwargs["reason"] ELSE _reason IN
    IF ~Iterable(reason)
    THEN [message |-> EmptyDict, exc |-> TypeError]
    ELSE IF Contains(reason, "\n")
         THEN [message |-> EmptyDict, exc |-> AssertionError]
         ELSE [message |-> ErrorDetail(BaseMessage(status_code, reason), kwargs),
               exc |-> NoExc]

(***************************************************************************)
(* The collaborators of the pipeline: query builder, query backend and     *)
(* result transformer.  Each value they return records what it was made    *)
(* from.                                                                   *)
(***************************************************************************)
\* web_settings.query_builder.build(options.esqb)
build(esqb) == [t |-> "Query", v |-> esqb]

\* query.to_dict()
to_dict(query) == Dict([k \in {"query"} |-> Dict(query.v)])

\* what the awaited query_backend.execute(_query, options.es, biothing_type)
\* returns; hits tells one backend answer from another
execute(query, es, biothing_type, hits) ==
    [t |-> "Result",
     v |-> [query |-> query, es |-> es, biothing_type |-> biothing_type, hits |-> hits]]

\* web_settings.query_transform.transform(res, options.transform)
transform(res, options) == [t |-> "Response", v |-> [res |-> res, options |-> options]]

(***************************************************************************)
(* The hooks.  A hook call yields [ret, exc]: the value returned, or the   *)
(* exception raised (NoExc when it returns).                               *)
(***************************************************************************)
Return(value) == [ret |-> value, exc |-> NoExc]
Raise(e) == [ret |-> None, exc |-> e]

pre_query_builder_hook(options) == Return(options)

\* faulty variant: the query itself is the payload, not its to_dict()
pre_query_hook_object(options, query) ==
    IF Truthy(Get(options.control, "rawquery"))
    THEN Raise(Finish(query))
    ELSE Return(query)

\* faulty variant: the raw flag is honoured first, the query going on to the
\* backend when it is set
pre_query_hook_raw_first(options, query) ==
    IF Truthy(Get(options.control, "rawquery")) /\ ~Truthy(Get(options.control, "raw"))
    THEN Raise(Finish(to_dict(query)))
    ELSE Return(query)

pre_query_hook(options, query) ==
    IF Truthy(Get(options.control, "rawquery"))
    THEN Raise(Finish(to_dict(query)))
    ELSE Return(query)

\* faulty variant: the raw flag is not looked at
pre_transform_hook_ignoring(options, res) == Return(res)

pre_transform_hook(options, res) ==
    IF Truthy(Get(options.control, "raw"))
    THEN Raise(Finish(res))
    ELSE Return(res)

\* faulty variant: the hook forgets to return its argument
pre_finish_hook_forgetful(options, res) == Return(None)

pre_finish_hook(options, res) == Return(res)

\* A subclass may override a hook.  The overrides considered: "finish" raises
\* Finish with a payload of its own, "error" raises the error e, "modify"
\* returns a value of its own made from the one it was given.
HookKinds == {"default", "finish", "error", "modify"}

ShortcutPayload(hook) == Dict([k \in {"shortcut"} |-> Str(<<hook>>)])

Modified(hook, value) == [t |-> "Modified", v |-> [by |-> hook, of |-> value]]

\* hook A's "modify" override mutates the option set it is given
Tracked(options) == [options EXCEPT !.transform = Put(@, "tracked", Bool(TRUE))]

Override(kind, hook, value, e) ==
    CASE kind = "finish" -> Raise(Finish(ShortcutPayload(hook)))
      [] kind = "error" -> Raise(e)
      [] kind = "modify" -> Return(IF hook = "pre_query_builder_hook"
                                   THEN Tracked(value)
                                   ELSE Modified(hook, value))

(***************************************************************************)
(* Inputs: the option sets the upstream parameter layer hands over, and    *)
(* the errors a stage or an overriding hook may raise.                     *)
(***************************************************************************)
Absent == [t |-> "absent", v |-> <<>>]

\* the dict holding the keys of choice that are not Absent
DictOf(choice) == [k \in {x \in DOMAIN choice : choice[x] # Absent} |-> choice[k]]

\* the dicts with one value (or none, for Absent) per key of spec
Dicts(spec) ==
    LET Values == UNION {spec[k] : k \in DOMAIN spec} IN
    {DictOf(c) : c \in {f \in [DOMAIN spec -> Values] : \A k \in DOMAIN spec : f[k] \in spec[k]}}

\* a batch of n terms: prefix-1, prefix-2, ...
Batch(prefix, n) == List([i \in 1..n |-> Str(<<prefix, ToString(i)>>)])
Batches(prefix) == {Batch(prefix, n) : n \in 0..MaxTerms}

ControlDicts ==
    Dicts([k \in {"rawquery", "raw"} |-> {Bool(FALSE), Bool(TRUE)}])

EsqbDicts ==
    Dicts([k \in {"aggs", "facet_size", "ids", "q"} |->
            CASE k = "aggs" -> {Absent, Bool(FALSE), Bool(TRUE)}
              [] k = "facet_size" -> {Absent, Int(10)}
              [] k = "ids" -> {Absent} \cup Batches("id")
              [] k = "q" -> {Absent} \cup Batches("q")])

EsDicts ==
    Dicts([k \in {"fetch_all", "sort", "size", "_source"} |->
            CASE k = "fetch_all" -> {Absent, Bool(FALSE), Bool(TRUE)}
              [] k = "sort" -> {Absent, List(<<Str(<<"x">>)>>)}
              [] k = "size" -> {Absent, Int(5)}
              [] k = "_source" -> {Absent, List(<<>>), List(<<Str(<<"all">>)>>),
                                   List(<<Str(<<"f">>)>>),
                                   List(<<Str(<<"f">>), Str(<<"all">>)>>)}])

OptionSet(control, esqb, es) ==
    [control |-> control, esqb |-> esqb, es |-> es, transform |-> EmptyDict]

AllOptionSets ==
    {OptionSet(c, q, e) : c \in ControlDicts, q \in EsqbDicts, e \in EsDicts}

\* the option sets the pipeline is run on: every control flag, with and
\* without a batch of terms, with and without fetch_all
PipelineOptionSets ==
    {OptionSet(c, q, e) :
        c \in ControlDicts,
        q \in {x \in EsqbDicts : /\ "aggs" \notin DOMAIN x
                                 /\ "facet_size" \in DOMAIN x
                                 /\ "ids" \notin DOMAIN x
                                 /\ Get(x, "q") \in {None, Batch("q", MaxTerms)}},
        e \in {x \in EsDicts : /\ "_source" \notin DOMAIN x
                               /\ "sort" \in DOMAIN x
                               /\ "size" \in DOMAIN x
                               /\ Get(x, "fetch_all") # Bool(FALSE)}}

Methods == {"GET", "POST"}
BiothingTypes == {"gene"}

\* BadRequest(reason=..., **kwargs)
BadRequest(reason, kwargs) == Exc("BadRequest", 400, reason, kwargs, <<>>)
\* HTTPError(status_code, reason=...)
HTTPError(status_code, reason) == Exc("HTTPError", status_code, reason, EmptyDict, <<>>)

OneLine == Str(<<"timeout">>)
TwoLines == Str(<<"time", "\n", "out">>)

\* errors a stage or an overriding hook raises
StageErrors ==
    {TypeError,
     HTTPError(503, OneLine),
     HTTPError(503, TwoLines),
     BadRequest(Str(<<"bad q">>), [k \in {"param"} |-> Str(<<"q">>)])}

(***************************************************************************)
(* State.  One handler instance serves one request; every variable maps a  *)
(* request to that handler's part of the state.                            *)
(***************************************************************************)
Requests == {1, 2}

VARIABLES
    pc,         \* where the request is: the step it will take next
    method,     \* self.request.method
    biothing,   \* self.biothing_type
    given,      \* the option set as the upstream layer produced it
    options,    \* self.grouped_options / the local `options`
    query,      \* the local `_query`
    res,        \* the local `res`
    exc,        \* the exception propagating out of the handler method
    impl,       \* hook name -> the implementation that ran ("unset" before)
    calls,      \* the steps performed so far, in order
    status,     \* self._status_code
    reason,     \* self._reason
    errargs,    \* the arguments write_error is called with
    written     \* the calls of self.finish so far: who called, with what chunk

vars == <<pc, method, biothing, given, options, query, res, exc, impl, calls,
          status, reason, errargs, written>>

Hooks == {"pre_query_builder_hook", "pre_query_hook", "pre_transform_hook",
          "pre_finish_hook"}

NoOptions == OptionSet(EmptyDict, EmptyDict, EmptyDict)
NoArgs == [status_code |-> 0, kwargs |-> EmptyDict]

\* RequestHandler.__init__ / clear(): status 200, reason "OK"
Init ==
    /\ pc = [r \in Requests |-> "idle"]
    /\ method = [r \in Requests |-> "GET"]
    /\ biothing = [r \in Requests |-> "gene"]
    /\ given = [r \in Requests |-> NoOptions]
    /\ options = [r \in Requests |-> NoOptions]
    /\ query = [r \in Requests |-> None]
    /\ res = [r \in Requests |-> None]
    /\ exc = [r \in Requests |-> NoExc]
    /\ impl = [r \in Requests |-> [h \in Hooks |-> "unset"]]
    /\ calls = [r \in Requests |-> <<>>]
    /\ status = [r \in Requests |-> 200]
    /\ reason = [r \in Requests |-> Str(<<"OK">>)]
    /\ errargs = [r \in Requests |-> NoArgs]
    /\ written = [r \in Requests |-> <<>>]

\* the step `step` of request r has been performed
Called(r, step) == calls' = [calls EXCEPT ![r] = Append(@, step)]

\* the statement at r raised e: the exception leaves execute_pipeline
Raised(r, e) ==
    /\ pc' = [pc EXCEPT ![r] = "raised"]
    /\ exc' = [exc EXCEPT ![r] = e]

\* self.finish(chunk), called from `via`
FinishWith(r, via, chunk) ==
    written' = [written EXCEPT ![r] = Append(@, [via |-> via, chunk |-> chunk])]

(***************************************************************************)
(* A request arrives: the upstream layer has produced its option set.      *)
(***************************************************************************)
Receive(r, optionSets) ==
    /\ pc[r] = "idle"
    /\ \E o \in optionSets, m \in Methods, b \in BiothingTypes :
        /\ given' = [given EXCEPT ![r] = o]
        /\ options' = [options EXCEPT ![r] = o]
        /\ method' = [method EXCEPT ![r] = m]
        /\ biothing' = [biothing EXCEPT ![r] = b]
    /\ pc' = [pc EXCEPT ![r] = "get_cleaned_options"]
    /\ UNCHANGED <<query, res, exc, impl, calls, status, reason, errargs, written>>

(***************************************************************************)
(* execute_pipeline, statement by statement.                               *)
(***************************************************************************)
\* faulty variant: the cleaned option set is kept in one place shared by all
\* handlers
CleanShared(r) ==
    /\ pc[r] = "get_cleaned_options"
    /\ LET c == get_cleaned_options(options[r], biothing[r], method[r]) IN
        /\ options' = [s \in Requests |-> c.options]
        /\ IF c.exc # NoExc
           THEN Raised(r, c.exc)
           ELSE /\ pc' = [pc EXCEPT ![r] = "pre_query_builder_hook"]
                /\ UNCHANGED exc
    /\ Called(r, "get_cleaned_options")
    /\ UNCHANGED <<method, biothing, given, query, res, impl, status, reason,
                   errargs, written>>

\* options = self.get_cleaned_options(self.grouped_options)
Clean(r) ==
    /\ pc[r] = "get_cleaned_options"
    /\ LET c == get_cleaned_options(options[r], biothing[r], method[r]) IN
        /\ options' = [options EXCEPT ![r] = c.options]
        /\ IF c.exc # NoExc
           THEN Raised(r, c.exc)
           ELSE /\ pc' = [pc EXCEPT ![r] = "pre_query_builder_hook"]
                /\ UNCHANGED exc
    /\ Called(r, "get_cleaned_options")
    /\ UNCHANGED <<method, biothing, given, query, res, impl, status, reason,
                   errargs, written>>

\* the implementation of hook `hook` that runs, applied to `value`
HookCall(kind, hook, opts, value, e) ==
    IF kind # "default"
    THEN Override(kind, hook, value, e)
    ELSE CASE hook = "pre_query_builder_hook" -> pre_query_builder_hook(opts)
           [] hook = "pre_query_hook" -> pre_query_hook(opts, value)
           [] hook = "pre_transform_hook" -> pre_transform_hook(opts, value)
           [] hook = "pre_finish_hook" -> pre_finish_hook(opts, value)

\* options = self.pre_query_builder_hook(options)
HookA(r) ==
    /\ pc[r] = "pre_query_builder_hook"
    /\ \E kind \in HookKinds, e \in StageErrors :
        LET h == HookCall(kind, "pre_query_builder_hook", options[r], options[r], e) IN
        /\ impl' = [impl EXCEPT ![r]["pre_query_builder_hook"] = kind]
        /\ IF h.exc # NoExc
           THEN Raised(r, h.exc) /\ UNCHANGED options
           ELSE /\ options' = [options EXCEPT ![r] = h.ret]
                /\ pc' = [pc EXCEPT ![r] = "build"]
                /\ UNCHANGED exc
    /\ Called(r, "pre_query_builder_hook")
    /\ UNCHANGED <<method, biothing, given, query, res, status, reason, errargs, written>>

\* _query = self.web_settings.query_builder.build(options.esqb)
Build(r) ==
    /\ pc[r] = "build"
    /\ \/ /\ query' = [query EXCEPT ![r] = build(options[r].esqb)]
          /\ pc' = [pc EXCEPT ![r] = "pre_query_hook"]
          /\ UNCHANGED exc
       \/ /\ \E e \in StageErrors : Raised(r, e)
          /\ UNCHANGED query
    /\ Called(r, "build")
    /\ UNCHANGED <<method, biothing, given, options, res, impl, status, reason,
                   errargs, written>>

\* faulty variant: a Finish of the hook is caught inside execute_pipeline,
\* which emits its payload itself and returns
HookBFolding(r) ==
    /\ pc[r] = "pre_query_hook"
    /\ \E kind \in HookKinds, e \in StageErrors :
        LET h == HookCall(kind, "pre_query_hook", options[r], query[r], e) IN
        /\ impl' = [impl EXCEPT ![r]["pre_query_hook"] = kind]
        /\ IF h.exc.cls = "Finish"
           THEN /\ FinishWith(r, "execute_pipeline", h.exc.args[1])
                /\ pc' = [pc EXCEPT ![r] = "done"]
                /\ UNCHANGED <<query, exc>>
           ELSE IF h.exc # NoExc
           THEN Raised(r, h.exc) /\ UNCHANGED <<query, written>>
           ELSE /\ query' = [query EXCEPT ![r] = h.ret]
                /\ pc' = [pc EXCEPT ![r] = "execute"]
                /\ UNCHANGED <<exc, written>>
    /\ Called(r, "pre_query_hook")
    /\ UNCHANGED <<method, biothing, given, options, res, status, reason, errargs>>

\* _query = self.pre_query_hook(options, _query)
HookB(r) ==
    /\ pc[r] = "pre_query_hook"
    /\ \E kind \in HookKinds, e \in StageErrors :
        LET h == HookCall(kind, "pre_query_hook", options[r], query[r], e) IN
        /\ impl' = [impl EXCEPT ![r]["pre_query_hook"] = kind]
        /\ IF h.exc # NoExc
           THEN Raised(r, h.exc) /\ UNCHANGED query
           ELSE /\ query' = [query EXCEPT ![r] = h.ret]
                /\ pc' = [pc EXCEPT ![r] = "execute"]
                /\ UNCHANGED exc
    /\ Called(r, "pre_query_hook")
    /\ UNCHANGED <<method, biothing, given, options, res, status, reason, errargs, written>>

\* res = await self.web_settings.query_backend.execute(...): the call is made
\* and the coroutine suspends
ExecuteCall(r) ==
    /\ pc[r] = "execute"
    /\ pc' = [pc EXCEPT ![r] = "await"]
    /\ Called(r, "execute")
    /\ UNCHANGED <<method, biothing, given, options, query, res, exc, impl, status,
                   reason, errargs, written>>

\* faulty variant: the backend call takes size out of the es stage it is given
ExecuteReturnPopping(r) ==
    /\ pc[r] = "await"
    /\ \/ /\ \E hits \in {0, 1} :
                res' = [res EXCEPT ![r] =
                          execute(query[r], options[r].es, biothing[r], hits)]
          /\ options' = [options EXCEPT ![r].es = Pop(@, "size")]
          /\ pc' = [pc EXCEPT ![r] = "pre_transform_hook"]
          /\ UNCHANGED exc
       \/ /\ \E e \in StageErrors : Raised(r, e)
          /\ UNCHANGED <<res, options>>
    /\ UNCHANGED <<method, biothing, given, query, impl, calls, status,
                   reason, errargs, written>>

\* the awaited call completes: the coroutine resumes with the result, or with
\* the error the backend raised
ExecuteReturn(r) ==
    /\ pc[r] = "await"
    /\ \/ /\ \E hits \in {0, 1} :
                res' = [res EXCEPT ![r] =
                          execute(query[r], options[r].es, biothing[r], hits)]
          /\ pc' = [pc EXCEPT ![r] = "pre_transform_hook"]
          /\ UNCHANGED exc
       \/ /\ \E e \in StageErrors : Raised(r, e)
          /\ UNCHANGED res
    /\ UNCHANGED <<method, biothing, given, options, query, impl, calls, status,
                   reason, errargs, written>>

\* faulty variant: the value hook C returns is emitted without transformation
HookCSkipping(r) ==
    /\ pc[r] = "pre_transform_hook"
    /\ \E kind \in HookKinds, e \in StageErrors :
        LET h == HookCall(kind, "pre_transform_hook", options[r], res[r], e) IN
        /\ impl' = [impl EXCEPT ![r]["pre_transform_hook"] = kind]
        /\ IF h.exc # NoExc
           THEN Raised(r, h.exc) /\ UNCHANGED res
           ELSE /\ res' = [res EXCEPT ![r] = h.ret]
                /\ pc' = [pc EXCEPT ![r] = "finish"]
                /\ UNCHANGED exc
    /\ Called(r, "pre_transform_hook")
    /\ UNCHANGED <<method, biothing, given, options, query, status, reason, errargs,
                   written>>

\* res = self.pre_transform_hook(options, res)
HookC(r) ==
    /\ pc[r] = "pre_transform_hook"
    /\ \E kind \in HookKinds, e \in StageErrors :
        LET h == HookCall(kind, "pre_transform_hook", options[r], res[r], e) IN
        /\ impl' = [impl EXCEPT ![r]["pre_transform_hook"] = kind]
        /\ IF h.exc # NoExc
           THEN Raised(r, h.exc) /\ UNCHANGED res
           ELSE /\ res' = [res EXCEPT ![r] = h.ret]
                /\ pc' = [pc EXCEPT ![r] = "transform"]
                /\ UNCHANGED exc
    /\ Called(r, "pre_transform_hook")
    /\ UNCHANGED <<method, biothing, given, options, query, status, reason, errargs,
                   written>>

\* res = self.web_settings.query_transform.transform(res, options.transform)
Transform(r) ==
    /\ pc[r] = "transform"
    /\ \/ /\ res' = [res EXCEPT ![r] = transform(res[r], options[r].transform)]
          /\ pc' = [pc EXCEPT ![r] = "pre_finish_hook"]
          /\ UNCHANGED exc
       \/ /\ \E e \in StageErrors : Raised(r, e)
          /\ UNCHANGED res
    /\ Called(r, "transform")
    /\ UNCHANGED <<method, biothing, given, options, query, impl, status, reason,
                   errargs, written>>

\* faulty variant: an exception of the hook is swallowed and the pipeline goes on
HookDSwallowing(r) ==
    /\ pc[r] = "pre_finish_hook"
    /\ \E kind \in HookKinds, e \in StageErrors :
        LET h == HookCall(kind, "pre_finish_hook", options[r], res[r], e) IN
        /\ impl' = [impl EXCEPT ![r]["pre_finish_hook"] = kind]
        /\ exc' = [exc EXCEPT ![r] = h.exc]
        /\ res' = [res EXCEPT ![r] = IF h.exc # NoExc THEN @ ELSE h.ret]
        /\ pc' = [pc EXCEPT ![r] = "finish"]
    /\ Called(r, "pre_finish_hook")
    /\ UNCHANGED <<method, biothing, given, options, query, status, reason, errargs,
                   written>>

\* res = self.pre_finish_hook(options, res)
HookD(r) ==
    /\ pc[r] = "pre_finish_hook"
    /\ \E kind \in HookKinds, e \in StageErrors :
        LET h == HookCall(kind, "pre_finish_hook", options[r], res[r], e) IN
        /\ impl' = [impl EXCEPT ![r]["pre_finish_hook"] = kind]
        /\ IF h.exc # NoExc
           THEN Raised(r, h.exc) /\ UNCHANGED res
           ELSE /\ res' = [res EXCEPT ![r] = h.ret]
                /\ pc' = [pc EXCEPT ![r] = "finish"]
                /\ UNCHANGED exc
    /\ Called(r, "pre_finish_hook")
    /\ UNCHANGED <<method, biothing, given, options, query, status, reason, errargs,
                   written>>

\* self.finish(res)
FinishStep(r) ==
    /\ pc[r] = "finish"
    /\ FinishWith(r, "execute_pipeline", res[r])
    /\ pc' = [pc EXCEPT ![r] = "done"]
    /\ Called(r, "finish")
    /\ UNCHANGED <<method, biothing, given, options, query, res, exc, impl, status,
                   reason, errargs>>

(***************************************************************************)
(* The framework around the handler method (tornado's RequestHandler):     *)
(* a Finish is answered with its payload; any other exception is answered  *)
(* through send_error, which sets the status and calls write_error.        *)
(***************************************************************************)
\* http.client.responses
StandardReason(status_code) ==
    CASE status_code = 400 -> Str(<<"Bad Request">>)
      [] status_code = 404 -> Str(<<"Not Found">>)
      [] status_code = 500 -> Str(<<"Internal Server Error">>)
      [] status_code = 503 -> Str(<<"Service Unavailable">>)
      [] OTHER -> Str(<<"Unknown">>)

\* except Finish: self.finish(*e.args)
HandleFinish(r) ==
    /\ pc[r] = "raised"
    /\ exc[r].cls = "Finish"
    /\ FinishWith(r, "Finish", exc[r].args[1])
    /\ pc' = [pc EXCEPT ![r] = "done"]
    /\ UNCHANGED <<method, biothing, given, options, query, res, exc, impl, calls,
                   status, reason, errargs>>

\* except Exception: self.send_error(e.status_code or 500, exc_info=...)
SendError(r) ==
    /\ pc[r] = "raised"
    /\ exc[r].cls # "Finish"
    /\ LET e == exc[r]
           code == IF IsHTTPError(e) THEN e.status_code ELSE 500
       IN /\ status' = [status EXCEPT ![r] = code]
          /\ reason' = [reason EXCEPT ![r] =
                          IF IsHTTPError(e) /\ Truthy(e.reason)
                          THEN e.reason
                          ELSE StandardReason(code)]
          /\ errargs' = [errargs EXCEPT ![r] =
                           [status_code |-> code, kwargs |-> [k \in {"exc_info"} |-> e]]]
    /\ pc' = [pc EXCEPT ![r] = "write_error"]
    /\ UNCHANGED <<method, biothing, given, options, query, res, exc, impl, calls,
                   written>>

\* self.write_error(status_code, **kwargs); when it raises, send_error logs the
\* exception and ends the response with self.finish() and no chunk
WriteError(r) ==
    /\ pc[r] = "write_error"
    /\ LET w == write_error(errargs[r].status_code, errargs[r].kwargs, reason[r]) IN
        IF w.exc # NoExc
        THEN FinishWith(r, "send_error", None)
        ELSE FinishWith(r, "write_error", Dict(w.message))
    /\ pc' = [pc EXCEPT ![r] = "done"]
    /\ Called(r, "write_error")
    /\ UNCHANGED <<method, biothing, given, options, query, res, exc, impl, status,
                   reason, errargs>>

(***************************************************************************)
(* Specifications.                                                         *)
(***************************************************************************)
Step(r) ==
    \/ Clean(r)
    \/ HookA(r)
    \/ Build(r)
    \/ HookB(r)
    \/ ExecuteCall(r)
    \/ ExecuteReturn(r)
    \/ HookC(r)
    \/ Transform(r)
    \/ HookD(r)
    \/ FinishStep(r)
    \/ HandleFinish(r)
    \/ SendError(r)
    \/ WriteError(r)

\* one request through the pipeline
Next == Receive(1, PipelineOptionSets) \/ Step(1)

Spec == Init /\ [][Next]_vars

\* write_error called directly (send_error(status, reason=...) by handler
\* code, or the framework's call), with every shape of arguments
ErrorDetails ==
    {EmptyDict,
     [k \in {"param"} |-> Str(<<"q">>)],
     [k \in {"param", "alias"} |-> Str(<<k>>)],
     [k \in {"code"} |-> Int(200)],
     [k \in {"success"} |-> Bool(TRUE)],
     [k \in {"error"} |-> TwoLines]}

AllErrors ==
    StageErrors \cup {BadRequest(Str(<<"bad q">>), d) : d \in ErrorDetails}

WriteErrorKwargs ==
    {DictOf(c) : c \in [reason : {Absent, OneLine, TwoLines},
                        exc_info : {Absent} \cup AllErrors]}

CallWriteError(r) ==
    /\ pc[r] = "idle"
    /\ \E code \in {400, 404, 500, 503}, kwargs \in WriteErrorKwargs :
        /\ errargs' = [errargs EXCEPT ![r] = [status_code |-> code, kwargs |-> kwargs]]
        /\ status' = [status EXCEPT ![r] = code]
        /\ \E phrase \in {StandardReason(code), TwoLines} :
              reason' = [reason EXCEPT ![r] = phrase]
    /\ pc' = [pc EXCEPT ![r] = "write_error"]
    /\ UNCHANGED <<method, biothing, given, options, query, res, exc, impl, calls,
                   written>>

NextError == CallWriteError(1) \/ WriteError(1)

SpecError == Init /\ [][NextError]_vars

\* the cleaner alone, on every option set
NextClean == Receive(1, AllOptionSets) \/ Clean(1)

SpecClean == Init /\ [][NextClean]_vars

(***************************************************************************)
(* Properties.                                                             *)
(***************************************************************************)
\* the steps of execute_pipeline, in the order of its statements
PipelineOrder ==
    <<"get_cleaned_options", "pre_query_builder_hook", "build", "pre_query_hook",
      "execute", "pre_transform_hook", "transform", "pre_finish_hook", "finish">>

IsPrefix(s, t) == Len(s) <= Len(t) /\ SubSeq(t, 1, Len(s)) = s

Count(s, x) == Cardinality({i \in 1..Len(s) : s[i] = x})

Performed(r, step) == Count(calls[r], step) > 0

Last(s) == s[Len(s)]

\* the option set hook B, hook C and hook D are given
Flag(r, name) == Truthy(Get(options[r].control, name))

\* C1: a run in which nothing raises performs clean, hook A, build, hook B,
\* execute, hook C, transform, hook D, finish, each once and in this order
\* (at every moment the steps performed are a prefix of that order), and the
\* one payload finish emits is the value hook D returned: the transformer's
\* output for the default hook D, the override's own value otherwise.
C1_PipelineOrder ==
    \A r \in Requests :
        (exc[r] = NoExc /\ ~Performed(r, "write_error")) =>
            /\ IsPrefix(calls[r], PipelineOrder)
            /\ pc[r] = "done" =>
                /\ calls[r] = PipelineOrder
                /\ written[r] = <<[via |-> "execute_pipeline", chunk |-> res[r]]>>
                /\ impl[r]["pre_finish_hook"] = "default" =>
                     /\ res[r].t = "Response"
                     /\ res[r].v.options = options[r].transform
                /\ impl[r]["pre_finish_hook"] = "modify" =>
                     /\ res[r].t = "Modified"
                     /\ res[r].v.by = "pre_finish_hook"
                     /\ res[r].v.of.t = "Response"

C1_Witness ==
    /\ pc[1] = "done"
    /\ exc[1] = NoExc
    /\ ~Flag(1, "rawquery") /\ ~Flag(1, "raw")
    /\ calls[1] = PipelineOrder
    /\ impl[1] = [h \in Hooks |-> "default"]
    /\ Len(written[1]) = 1

\* C2: with rawquery set and the default pre_query_hook, the backend, hook C,
\* the transformer and hook D are never invoked, and once hook B has run the
\* response is the one payload query.to_dict() of the built query.
C2_RawQuery ==
    \A r \in Requests :
        (Flag(r, "rawquery") /\ impl[r]["pre_query_hook"] \in {"unset", "default"}) =>
            /\ \A step \in {"execute", "pre_transform_hook", "transform",
                            "pre_finish_hook", "finish"} : ~Performed(r, step)
            /\ pc[r] # "await"
            /\ (impl[r]["pre_query_hook"] = "default" /\ pc[r] = "done") =>
                 written[r] = <<[via |-> "Finish",
                                 chunk |-> to_dict(build(options[r].esqb))]>>

C2_Witness ==
    /\ pc[1] = "done"
    /\ Flag(1, "rawquery")
    /\ impl[1]["pre_query_hook"] = "default"
    /\ Len(written[1]) = 1
    /\ written[1][1].chunk.t = "dict"

C4_EarlyFinish ==
    \A r \in Requests :
        exc[r].cls = "Finish" =>
            /\ pc[r] \in {"raised", "done"}
            /\ IsPrefix(calls[r], PipelineOrder)
            /\ Last(calls[r]) \in Hooks
            /\ impl[r][Last(calls[r])] \in {"default", "finish"}
            /\ impl[r][Last(calls[r])] = "finish" =>
                 exc[r].args = <<ShortcutPayload(Last(calls[r]))>>
            /\ status[r] = 200
            /\ pc[r] = "raised" => written[r] = <<>>
            /\ pc[r] = "done" =>
                 written[r] = <<[via |-> "Finish", chunk |-> exc[r].args[1]]>>

C4_Witness ==
    /\ pc[1] = "done"
    /\ exc[1].cls = "Finish"
    /\ Last(calls[1]) = "pre_finish_hook"
    /\ impl[1]["pre_finish_hook"] = "finish"
    /\ written[1] = <<[via |-> "Finish", chunk |-> ShortcutPayload("pre_finish_hook")]>>

\* an exception other than Finish has left execute_pipeline
Failed(r) == exc[r].cls \notin {"none", "Finish"}

\* the chunk is an error envelope: a dict with at least code, success, error
IsEnvelope(chunk) ==
    chunk.t = "dict" /\ {"code", "success", "error"} \subseteq DOMAIN chunk.v

\* C5: when a stage or a hook raises an error, no later pipeline step runs
\* (the backend is invoked at most once, the transformer not after a backend
\* failure), the normal payload is never emitted, write_error is given the
\* error as raised, and the response is exactly one body, the error envelope.
C5_ErrorEnvelope ==
    \A r \in Requests :
        Failed(r) =>
            /\ pc[r] \in {"raised", "write_error", "done"}
            /\ Count(calls[r], "execute") <= 1
            /\ ~Performed(r, "finish")
            /\ pc[r] # "raised" => errargs[r].kwargs["exc_info"] = exc[r]
            /\ pc[r] = "done" =>
                 /\ Len(written[r]) = 1
                 /\ written[r][1].via = "write_error"
                 /\ IsEnvelope(written[r][1].chunk)

\* C5 without its last part: everything but the envelope being emitted
C5_NoLaterStage ==
    \A r \in Requests :
        Failed(r) =>
            /\ pc[r] \in {"raised", "write_error", "done"}
            /\ IsPrefix(SubSeq(calls[r], 1, Len(calls[r]) - 1), PipelineOrder)
            /\ Count(calls[r], "execute") <= 1
            /\ ~Performed(r, "finish")
            /\ pc[r] # "raised" => errargs[r].kwargs["exc_info"] = exc[r]
            /\ pc[r] = "done" => Len(written[r]) = 1

(***************************************************************************)
(* Properties of write_error (SpecError).                                  *)
(***************************************************************************)
\* write_error has been called and has ended, by finish or by raising
ErrorWritten(r) == pc[r] = "done" /\ Performed(r, "write_error")

\* the envelope write_error emitted, when it emitted one
Emitted(r) == Len(written[r]) = 1 /\ written[r][1].via = "write_error"
Envelope(r) == written[r][1].chunk.v

\* the reason write_error reports: the one supplied, else the handler's
ReasonGiven(r) ==
    IF "reason" \in DOMAIN errargs[r].kwargs
    THEN errargs[r].kwargs["reason"]
    ELSE reason[r]

\* the structured detail of the exception being handled, when it is a
\* BadRequest carrying some
Detail(r) ==
    LET kwargs == errargs[r].kwargs IN
    IF "exc_info" \in DOMAIN kwargs /\ kwargs["exc_info"].cls = "BadRequest"
    THEN kwargs["exc_info"].kwargs
    ELSE EmptyDict

\* C6: every envelope write_error emits has code = the status code given,
\* success = false and error = the reason, whatever the exception's detail.
C6_BaseKeys ==
    \A r \in Requests :
        (ErrorWritten(r) /\ Emitted(r)) =>
            /\ Envelope(r)["code"] = Int(errargs[r].status_code)
            /\ Envelope(r)["success"] = Bool(FALSE)
            /\ Envelope(r)["error"] = ReasonGiven(r)

\* C7: write_error raises and emits nothing when the reason has a line break,
\* emits an envelope when it has none, and so no emitted envelope has an
\* error string with a line break.
C7_SingleLine ==
    \A r \in Requests :
        ErrorWritten(r) =>
            /\ Contains(ReasonGiven(r), "\n") => ~Emitted(r)
            /\ ~Contains(ReasonGiven(r), "\n") => Emitted(r)
            /\ Emitted(r) => ~Contains(Envelope(r)["error"], "\n")

\* C7 without its conclusion: write_error raises, and emits nothing, exactly
\* when the reason has a line break
C7_AssertOnly ==
    \A r \in Requests :
        ErrorWritten(r) => (Contains(ReasonGiven(r), "\n") <=> ~Emitted(r))

\* C8: the envelope has keys beyond code, success, error only for a BadRequest
\* with non-empty detail, whose pairs are then all in the envelope as given
\* (and nothing else is added); in every other case the envelope is exactly
\* the three base pairs.
C8_ExtraKeys ==
    \A r \in Requests :
        (ErrorWritten(r) /\ Emitted(r)) =>
            LET base == BaseMessage(errargs[r].status_code, ReasonGiven(r)) IN
            /\ DOMAIN Envelope(r) = DOMAIN base \cup DOMAIN Detail(r)
            /\ \A k \in DOMAIN Detail(r) : Envelope(r)[k] = Detail(r)[k]
            /\ \A k \in DOMAIN base \ DOMAIN Detail(r) : Envelope(r)[k] = base[k]
            /\ DOMAIN Detail(r) = {} => Envelope(r) = base

C8_Witness ==
    /\ ErrorWritten(1) /\ Emitted(1)
    /\ DOMAIN Detail(1) = {"param", "alias"}
    /\ DOMAIN Envelope(1) = {"code", "success", "error", "param", "alias"}
    /\ Envelope(1)["param"] = Str(<<"param">>)

(***************************************************************************)
(* Properties of get_cleaned_options (SpecClean).                          *)
(***************************************************************************)
\* get_cleaned_options has run on the option set of r
Cleaned(r) == Performed(r, "get_cleaned_options")

\* key k of stage dict `now` is as it is in `before`: absent in both, or
\* present in both with the same value
Same(before, now, k) ==
    /\ k \in DOMAIN now <=> k \in DOMAIN before
    /\ k \in DOMAIN before => now[k] = before[k]

\* C9: after cleaning, an option set given with fetch_all enabled has neither
\* sort nor size in its es stage; one given with fetch_all disabled or absent
\* has sort and size exactly as given.
C9_FetchAll ==
    \A r \in Requests :
        Cleaned(r) =>
            IF Truthy(Get(given[r].es, "fetch_all"))
            THEN "sort" \notin DOMAIN options[r].es /\ "size" \notin DOMAIN options[r].es
            ELSE /\ Same(given[r].es, options[r].es, "sort")
                 /\ Same(given[r].es, options[r].es, "size")

C9_Witness ==
    /\ Cleaned(1)
    /\ Get(given[1].es, "fetch_all") = Bool(TRUE)
    /\ {"sort", "size"} \subseteq DOMAIN given[1].es
    /\ DOMAIN options[1].es \cap {"sort", "size"} = {}

\* C10: after cleaning, an option set given without aggregation (aggs false
\* or absent) has no facet_size in its esqb stage; one given with aggregation
\* has facet_size exactly as given.
C10_FacetSize ==
    \A r \in Requests :
        Cleaned(r) =>
            IF ~Truthy(Get(given[r].esqb, "aggs"))
            THEN "facet_size" \notin DOMAIN options[r].esqb
            ELSE Same(given[r].esqb, options[r].esqb, "facet_size")

C10_Witness ==
    /\ Cleaned(1)
    /\ Get(given[1].esqb, "aggs") = Bool(FALSE)
    /\ "facet_size" \in DOMAIN given[1].esqb
    /\ "facet_size" \notin DOMAIN options[1].esqb

\* C11: after cleaning, an es stage given with a _source selection has no
\* _source when the selection was empty, has _source = True when it contained
\* "all", and has the selection as given otherwise; one given without _source
\* still has none.
C11_Source ==
    \A r \in Requests :
        Cleaned(r) =>
            LET src == Get(given[r].es, "_source") IN
            IF src = None
            THEN Same(given[r].es, options[r].es, "_source")
            ELSE IF ~Truthy(src)
                 THEN "_source" \notin DOMAIN options[r].es
                 ELSE IF Contains(src, "all")
                      THEN Get(options[r].es, "_source") = Bool(TRUE)
                      ELSE Same(given[r].es, options[r].es, "_source")

C11_Witness ==
    /\ Cleaned(1)
    /\ Get(given[1].es, "_source") = List(<<Str(<<"f">>), Str(<<"all">>)>>)
    /\ Get(options[1].es, "_source") = Bool(TRUE)

(***************************************************************************)
(* The cleaner applied a second time to the option set it returned.        *)
(***************************************************************************)
ReClean(r) ==
    /\ pc[r] = "pre_query_builder_hook"
    /\ Count(calls[r], "get_cleaned_options") = 1
    /\ LET c == get_cleaned_options(options[r], biothing[r], method[r]) IN
        /\ options' = [options EXCEPT ![r] = c.options]
        /\ exc' = [exc EXCEPT ![r] = c.exc]
    /\ pc' = [pc EXCEPT ![r] = "cleaned_again"]
    /\ Called(r, "get_cleaned_options")
    /\ UNCHANGED <<method, biothing, given, query, res, impl, status, reason,
                   errargs, written>>

NextReClean == Receive(1, AllOptionSets) \/ Clean(1) \/ ReClean(1)

SpecReClean == Init /\ [][NextReClean]_vars

\* the option set the first cleaning of the given one returns
CleanedOnce(r) == get_cleaned_options(given[r], biothing[r], method[r]).options

\* C12: cleaning an already-cleaned option set completes without error and
\* yields the option set the first cleaning returned.
C12_Idempotent ==
    \A r \in Requests :
        pc[r] = "cleaned_again" =>
            /\ exc[r] = NoExc
            /\ options[r] = CleanedOnce(r)

\* C12 for the option sets whose cleaned _source is not True: the second
\* cleaning returns and changes nothing
C12_IdempotentBarAll ==
    \A r \in Requests :
        (pc[r] = "cleaned_again" /\ Get(CleanedOnce(r).es, "_source") # Bool(TRUE)) =>
            /\ exc[r] = NoExc
            /\ options[r] = CleanedOnce(r)

(***************************************************************************)
(* Properties of the injected templates (SpecClean).                       *)
(***************************************************************************)
\* list(gen): the dicts the generator (dict(query=q) for q in queries) still
\* yields
Drain(gen) ==
    [i \in 1..(Len(gen.v.source) + 1 - gen.v.next) |->
        Dict([k \in {"query"} |-> gen.v.source[gen.v.next + i - 1]])]

\* the batch input of a POST request: ids, or q when ids is absent
BatchInput(r) ==
    IF "ids" \in DOMAIN given[r].esqb
    THEN given[r].esqb["ids"]
    ELSE Get(given[r].esqb, "q")

\* the batch the code iterates: options.esqb.ids or options.esqb.q
BatchUsed(r) ==
    IF Truthy(Get(given[r].esqb, "ids"))
    THEN given[r].esqb["ids"]
    ELSE Get(given[r].esqb, "q")

TemplatesOf(r, batch) ==
    /\ exc[r] = NoExc
    /\ {"templates", "template_miss", "template_hit"} \subseteq DOMAIN options[r].transform
    /\ Drain(options[r].transform["templates"]) =
          [i \in 1..Len(batch.v) |-> Dict([k \in {"query"} |-> batch.v[i]])]
    /\ options[r].transform["template_miss"] = Dict([k \in {"notfound"} |-> Bool(TRUE)])
    /\ options[r].transform["template_hit"] = Dict(EmptyDict)

\* C13: after cleaning a POST request whose batch input (ids, or q when ids
\* is absent) has N terms, templates yields the N dicts {query: term} in the
\* order of the input, template_miss is {notfound: True} and template_hit {}.
C13_Templates ==
    \A r \in Requests :
        (Cleaned(r) /\ method[r] = "POST" /\ BatchInput(r) # None) =>
            TemplatesOf(r, BatchInput(r))

\* C13 for the batch the code picks (ids when non-empty, else q), when there
\* is one
C13_TemplatesOfUsed ==
    \A r \in Requests :
        (Cleaned(r) /\ method[r] = "POST" /\ BatchUsed(r) # None) =>
            TemplatesOf(r, BatchUsed(r))

\* C14: get_cleaned_options returns an option set and never raises, for every
\* option set and both request methods.
C14_NeverRaises ==
    \A r \in Requests :
        Cleaned(r) => exc[r] = NoExc /\ pc[r] # "raised"

(***************************************************************************)
(* How execute_pipeline terminates (Spec).                                 *)
(***************************************************************************)
\* C15 as stated: only genuine stage errors leave execute_pipeline as a raised
\* exception; an early finish never does.
C15_OnlyErrorsPropagate ==
    \A r \in Requests : pc[r] = "raised" => Failed(r)

\* C15: execute_pipeline emits a payload itself only on the normal path, as
\* its last statement and with no exception raised.  A hook's early finish
\* ends execute_pipeline by the Finish raised out of it, nothing emitted by
\* then; the payload is emitted afterwards by the framework's handler of
\* Finish.  The default hook B with rawquery set and the default hook C with
\* raw set end the run this way.
C15_FinishPropagates ==
    \A r \in Requests :
        /\ \A i \in 1..Len(written[r]) :
            /\ written[r][i].via = "execute_pipeline" =>
                 /\ exc[r] = NoExc
                 /\ Last(calls[r]) = "finish"
                 /\ written[r][i].chunk = res[r]
            /\ written[r][i].via = "Finish" =>
                 /\ exc[r].cls = "Finish"
                 /\ ~Performed(r, "finish")
                 /\ written[r][i].chunk = exc[r].args[1]
        /\ (pc[r] = "raised" /\ exc[r].cls = "Finish") => written[r] = <<>>
        /\ \A h \in {"pre_query_hook", "pre_transform_hook"} :
            (/\ calls[r] # <<>>
             /\ Last(calls[r]) = h
             /\ impl[r][h] = "default"
             /\ Flag(r, IF h = "pre_query_hook" THEN "rawquery" ELSE "raw")) =>
                /\ pc[r] \in {"raised", "done"}
                /\ exc[r].cls = "Finish"

C15_Witness ==
    /\ pc[1] = "raised"
    /\ exc[1].cls = "Finish"
    /\ Last(calls[1]) = "pre_query_hook"
    /\ impl[1]["pre_query_hook"] = "default"
    /\ written[1] = <<>>

(***************************************************************************)
(* Cancellation.  The task running the request is cancelled while the      *)
(* coroutine is suspended in `await ...execute(...)`: asyncio throws        *)
(* CancelledError into the coroutine at the await.  execute_pipeline has   *)
(* no try/except, so the exception leaves it there.  CancelledError is a   *)
(* BaseException: neither the framework's `except Finish` nor its          *)
(* `except Exception` handles it, and the request ends with nothing sent.  *)
(***************************************************************************)
CancelledError == Exc("CancelledError", 0, None, EmptyDict, <<>>)

\* faulty variant: the cancellation is swallowed at the await and the run
\* resumes with the backend's result
CancelSwallowed(r) ==
    /\ pc[r] = "await"
    /\ exc' = [exc EXCEPT ![r] = CancelledError]
    /\ res' = [res EXCEPT ![r] = execute(query[r], options[r].es, biothing[r], 0)]
    /\ pc' = [pc EXCEPT ![r] = "pre_transform_hook"]
    /\ UNCHANGED <<method, biothing, given, options, query, impl, calls, status,
                   reason, errargs, written>>

Cancel(r) ==
    /\ pc[r] = "await"
    /\ exc' = [exc EXCEPT ![r] = CancelledError]
    /\ pc' = [pc EXCEPT ![r] = "cancelled"]
    /\ UNCHANGED <<method, biothing, given, options, query, res, impl, calls, status,
                   reason, errargs, written>>

NextCancel == Receive(1, PipelineOptionSets) \/ Step(1) \/ Cancel(1)

SpecCancel == Init /\ [][NextCancel]_vars

Cancelled(r) == exc[r] = CancelledError

ConcOptionSets(r) ==
    {o \in PipelineOptionSets :
        IF r = 1
        THEN /\ o.control = [k \in {"rawquery", "raw"} |-> Bool(FALSE)]
             /\ "q" \notin DOMAIN o.esqb
             /\ "fetch_all" \notin DOMAIN o.es
        ELSE /\ o.control = [k \in {"rawquery", "raw"} |-> Bool(k = "raw")]
             /\ "q" \notin DOMAIN o.esqb
             /\ "fetch_all" \in DOMAIN o.es}

NextConc == \E r \in Requests : Receive(r, ConcOptionSets(r)) \/ Step(r)

SpecConc == Init /\ [][NextConc]_vars

\* everything the model holds for request r
Own(r) ==
    <<pc[r], method[r], biothing[r], given[r], options[r], query[r], res[r], exc[r],
      impl[r], calls[r], status[r], reason[r], errargs[r], written[r]>>

\* what a hook of kind `kind` returns for `value` when it returns
Via(kind, hook, value) == IF kind = "modify" THEN Modified(hook, value) ELSE value

\* The values of a run of request r on its own, from what r was given and
\* the choices made in r's run (its hooks, the backend's answer, the error
\* raised): the option set after cleaning and after hook A (o below), the
\* query after hook B, the result after hook C, the payload after hook D.
OwnCleaned(r) == get_cleaned_options(given[r], biothing[r], method[r]).options

OwnOptions(r, c) ==
    IF impl[r]["pre_query_builder_hook"] = "modify" THEN Tracked(c) ELSE c

OwnQuery(r, o) == Via(impl[r]["pre_query_hook"], "pre_query_hook", build(o.esqb))

OwnBackend(r, o, hits) == execute(OwnQuery(r, o), o.es, biothing[r], hits)

OwnResult(r, o, hits) ==
    Via(impl[r]["pre_transform_hook"], "pre_transform_hook", OwnBackend(r, o, hits))

OwnPayload(r, o, hits) ==
    Via(impl[r]["pre_finish_hook"], "pre_finish_hook",
        transform(OwnResult(r, o, hits), o.transform))

\* the responses such a run can end with
OwnResponses(r, o) ==
    CASE exc[r] = NoExc ->
            {<<[via |-> "execute_pipeline", chunk |-> OwnPayload(r, o, hits)]>> :
                hits \in {0, 1}}
      [] exc[r].cls = "Finish" ->
            LET h == Last(calls[r]) IN
            {<<[via |-> "Finish", chunk |-> p]>> :
                p \in IF impl[r][h] = "finish"
                      THEN {ShortcutPayload(h)}
                      ELSE IF h = "pre_query_hook"
                           THEN {to_dict(build(o.esqb))}
                           ELSE {OwnBackend(r, o, hits) : hits \in {0, 1}}}
      [] OTHER ->
            LET e == exc[r]
                code == IF IsHTTPError(e) THEN e.status_code ELSE 500
                phrase == IF IsHTTPError(e) /\ Truthy(e.reason)
                          THEN e.reason
                          ELSE StandardReason(code)
                w == write_error(code, [k \in {"exc_info"} |-> e], phrase)
            IN {<<IF w.exc # NoExc
                  THEN [via |-> "send_error", chunk |-> None]
                  ELSE [via |-> "write_error", chunk |-> Dict(w.message)]>>}

\* the option set, query and result of r are made from r's own input only,
\* and r's response is one its run alone ends with
OwnValues ==
    \A r \in Requests :
        pc[r] \notin {"idle", "get_cleaned_options"} =>
            LET c == OwnCleaned(r)
                o == OwnOptions(r, c)
            IN /\ options[r] \in {c, o}
               /\ query[r] # None => query[r] = OwnQuery(r, o)
               /\ res[r] # None =>
                    \E hits \in {0, 1} :
                        res[r] \in {OwnBackend(r, o, hits), OwnResult(r, o, hits),
                                    transform(OwnResult(r, o, hits), o.transform),
                                    OwnPayload(r, o, hits)}
               /\ pc[r] # "done" => written[r] = <<>>
               /\ pc[r] = "done" => written[r] \in OwnResponses(r, o)

\* before its cleaning a request holds what it was given and nothing else
OwnInput ==
    \A r \in Requests :
        pc[r] \in {"idle", "get_cleaned_options"} =>
            /\ options[r] = given[r]
            /\ query[r] = None /\ res[r] = None /\ written[r] = <<>>

\* a step is a step of one request and leaves every other request as it was
OwnStep == \E r \in Requests : \A s \in Requests \ {r} : Own(s)' = Own(s)

\* C17: with two requests running at once, under every interleaving of their
\* steps, each step changes the option set, query, result and every other
\* item of one request only, each request's option set, query and result are
\* made from that request's own input, and the response of each request is a
\* response its run alone ends with.
C17_Isolation == [][OwnStep]_vars /\ []OwnInput /\ []OwnValues

\* request 2 has been answered with its raw result while request 1 is
\* suspended in its backend call
C17_Witness ==
    /\ pc[1] = "await"
    /\ pc[2] = "done"
    /\ Last(calls[2]) = "pre_transform_hook"
    /\ impl[2]["pre_transform_hook"] = "default"
    /\ written[2] \in OwnResponses(2, OwnOptions(2, OwnCleaned(2)))
    /\ written[2][1].chunk.t = "Result"
    /\ written[2][1].chunk.v.es # options[1].es

(***************************************************************************)
(* The states of one request.  A hook belongs to the state of the step it  *)
(* follows: the request is CLEANING until hook A has returned, BUILDING    *)
(* until hook B has, EXECUTING until hook C has, TRANSFORMING until hook D *)
(* has.                                                                    *)
(***************************************************************************)
State(r) ==
    CASE pc[r] = "idle" -> "NONE"
      [] pc[r] = "get_cleaned_options" -> "RECEIVED"
      [] pc[r] = "pre_query_builder_hook" -> "CLEANING"
      [] pc[r] \in {"build", "pre_query_hook"} -> "BUILDING"
      [] pc[r] \in {"execute", "await", "pre_transform_hook"} -> "EXECUTING"
      [] pc[r] \in {"transform", "pre_finish_hook"} -> "TRANSFORMING"
      [] pc[r] = "finish" -> "FINISHING"
      [] pc[r] = "raised" /\ exc[r].cls = "Finish" -> "EARLY_FINISH"
      [] pc[r] \in {"raised", "write_error"} -> "ERROR"
      [] pc[r] = "done" -> "EMITTED"
      [] OTHER -> "OTHER"

NonTerminal == {"RECEIVED", "CLEANING", "BUILDING", "EXECUTING", "TRANSFORMING",
                "FINISHING"}

\* the transitions of the state machine as stated
Stated ==
    {<<"NONE", "RECEIVED">>, <<"RECEIVED", "CLEANING">>, <<"CLEANING", "BUILDING">>,
     <<"BUILDING", "EARLY_FINISH">>, <<"BUILDING", "EXECUTING">>,
     <<"EXECUTING", "EARLY_FINISH">>, <<"EXECUTING", "TRANSFORMING">>,
     <<"TRANSFORMING", "FINISHING">>, <<"FINISHING", "EMITTED">>,
     <<"EARLY_FINISH", "EMITTED">>, <<"ERROR", "EMITTED">>}
    \cup {<<s, "ERROR">> : s \in NonTerminal}

\* with the early finish of hook A and of hook D
WithEveryHook ==
    Stated \cup {<<"CLEANING", "EARLY_FINISH">>, <<"TRANSFORMING", "EARLY_FINISH">>}

\* every step of a request stays in its state or takes a transition of T
Follows(T) ==
    \A r \in Requests : State(r)' # State(r) => <<State(r), State(r)'>> \in T

\* a request that has arrived is answered, and one in ERROR is answered
\* after write_error has been called for it
Answered ==
    \A r \in Requests :
        /\ (pc[r] # "idle") ~> (State(r) = "EMITTED" /\ Len(written[r]) = 1)
        /\ (State(r) = "ERROR") ~>
              (State(r) = "EMITTED" /\ Last(calls[r]) = "write_error")

\* the backend call eventually returns or fails, and the steps of the handler
\* and of the framework are taken
SpecLive == Init /\ [][Next]_vars /\ WF_vars(Step(1))

\* C18 as stated: EARLY_FINISH is entered from BUILDING and from EXECUTING
\* only.
C18_AsStated == [][Follows(Stated)]_vars /\ Answered

\* C18: every request follows RECEIVED -> CLEANING -> BUILDING -> EXECUTING ->
\* TRANSFORMING -> FINISHING -> EMITTED, with EARLY_FINISH entered from
\* CLEANING, BUILDING, EXECUTING or TRANSFORMING (a Finish raised by the hook
\* that follows the step) and leading to EMITTED, and ERROR entered from
\* non-terminal states only and leading to EMITTED; every request that has
\* arrived eventually reaches EMITTED, one in ERROR after write_error has
\* been called.
C18_StateMachine == [][Follows(WithEveryHook)]_vars /\ Answered

C18_Witness ==
    /\ State(1) = "EARLY_FINISH"
    /\ Last(calls[1]) = "pre_finish_hook"
    /\ impl[1]["pre_finish_hook"] = "finish"

(***************************************************************************)
(* The option set after cleaning (Spec).                                   *)
(***************************************************************************)
\* a step of r taken after hook A: build, hook B, the backend call, hook C,
\* transform, hook D, finish, or the framework's answer
AfterHookA(r) ==
    pc[r] \notin {"idle", "get_cleaned_options", "pre_query_builder_hook"}

C20_RawQueryFirst ==
    \A r \in Requests :
        (/\ Flag(r, "rawquery") /\ Flag(r, "raw")
         /\ impl[r]["pre_query_hook"] \in {"unset", "default"}) =>
            /\ ~Performed(r, "execute")
            /\ pc[r] \notin {"execute", "await", "pre_transform_hook"}
            /\ ~Performed(r, "pre_transform_hook")
            /\ impl[r]["pre_transform_hook"] = "unset"
            /\ res[r] = None
            /\ impl[r]["pre_query_hook"] = "default" =>
                 /\ exc[r] = Finish(to_dict(query[r]))
                 /\ query[r].t = "Query"
                 /\ pc[r] = "done" =>
                      written[r] = <<[via |-> "Finish", chunk |-> to_dict(query[r])]>>

C20_Witness ==
    /\ pc[1] = "done"
    /\ Flag(1, "rawquery") /\ Flag(1, "raw")
    /\ impl[1]["pre_query_hook"] = "default"
    /\ written[1] = <<[via |-> "Finish", chunk |-> to_dict(query[1])]>>
    /\ Last(calls[1]) = "pre_query_hook"

====
